---- MODULE Spec2Model ----
(***************************************************************************)
(* Gap buffer of wapierz/reffub (gap_buffer.hpp).  The repository holds    *)
(* three variants of the header (and of main.cpp); they differ in front(), *)
(* in remove() with a negative count, in remove_suffix() and in their      *)
(* assertions.  The variable `variant` says which header is compiled:      *)
(*   1 : part_000 lines   1..251  (basic_string_view based, remove<bool>)  *)
(*   2 : part_000 lines 253..690  (the documented header)                  *)
(*   3 : part_000 lines 692..935                                           *)
(* Raw backing-store indices are 0-based as in the source; the TLA+        *)
(* sequence buf holds raw index r at buf[r + 1].                           *)
(***************************************************************************)
EXTENDS Integers, Sequences, FiniteSets, TLC

VARIABLES
    variant,   \* which gap_buffer.hpp is compiled (1, 2, 3)
    checked,   \* TRUE: assert() is active (debug build); FALSE: NDEBUG
    buf,       \* _buf : the backing store, stale slots of the gap included
    gb,        \* _gap.begin() - _buf.begin()
    ge,        \* _gap.end()   - _buf.begin()
    status,    \* "ok", "assert" (assertion failure), "ub" (undefined behaviour)
    op,        \* the last public operation called
    arg,       \* its arguments: index, count, length of data (0 where it has none)
    before,    \* size() at the moment it was called
    work,      \* meter of SpecPushBack: push_back(T) calls made and elements
               \* copied by growth and relocation since construction
    ret,       \* what the last query returned (a sequence of elements)
    call       \* SpecInsertSteps: the insert in progress, its position (pc)
               \* and its parameters index and data

vars == <<variant, checked, buf, gb, ge, status, op, arg, before, work, ret, call>>

----------------------------------------------------------------------------
(* Bounds of the model *)

\* largest backing store on which a mutating call is explored (the call may
\* grow it further; the grown store is then observed, and cleared)
MaxStore == 4
\* longest data sequence passed to an insert
MaxData == 2
\* largest |count| passed to a remove
MaxCount == 2
\* most slots of the store that hold a value assigned through a reference
MaxWritten == 1
\* longest run of single-element push_back calls that is metered
MaxPushes == 6
\* the factor c of the linear bound c * m that m calls are held against
\* (doubling only when the gap is too small needs less than 3)
LinearFactor == 8

Variants == {1, 2, 3}

\* The container never inspects its elements, so callers insert elements
\* that are all different (0 is T{}, what resize() fills new slots with):
\* distinct elements make every misplaced, lost or duplicated element
\* visible in the content.  Every non-empty insert grows the backing store,
\* so the length of the store at the call tags the elements of that call.
Fresh(cap, n) == [j \in 1..n |-> cap * (MaxData + 1) + j]

Max(a, b) == IF a >= b THEN a ELSE b
Min(a, b) == IF a <= b THEN a ELSE b

Zeros(n) == [j \in 1..n |-> 0]

\* s[a..b) in 0-based half-open form
Slice(s, a, b) == SubSeq(s, a + 1, b)

\* std::ranges::copy / copy_backward of n elements from raw index src to raw
\* index dst; the directions the code uses make both behave as memmove
CopyRange(s, src, dst, n) ==
    [j \in 1..Len(s) |->
        IF j - 1 >= dst /\ j - 1 < dst + n THEN s[src + (j - dst)] ELSE s[j]]

----------------------------------------------------------------------------
(* The machine a member function works on: the fields of the object, the   *)
(* outcome so far (st) and counters of the work done:                      *)
(*   mv : elements copied by cursor relocation                            *)
(*   gr : elements copied by growth (copy_backward of the right side)     *)
(*   ng : number of resizes of the backing store                          *)
(*   rl : elements moved by the reallocations inside resize()              *)

Machine(b, g, e) ==
    [buf |-> b, gb |-> g, ge |-> e, st |-> "ok",
     mv |-> 0, gr |-> 0, ng |-> 0, rl |-> 0]

Fail(m, how) == [m EXCEPT !.st = how]

buf_size(m) == Len(m.buf)

gap_size(m) == m.ge - m.gb

size(m) == Len(m.buf) - gap_size(m)

\* a plausible slip: the store is asked, not the content
empty_of_store(m) == Len(m.buf) = 0

empty(m) == size(m) = 0

\* a plausible slip: the second part starts at the gap's begin, not its end
view_from_gap_begin(m) ==
    Slice(m.buf, 0, m.gb) \o Slice(m.buf, m.gb, Len(m.buf))

\* view(): concat(subrange{begin, begin+gb}, subrange{begin+ge, end})
view(m) == Slice(m.buf, 0, m.gb) \o Slice(m.buf, m.ge, Len(m.buf))

\* a plausible slip: the gap's end is pushed out, the elements right of the
\* gap are left where they were
enlarge_without_copy_backward(m, i) ==
    IF m.st # "ok" \/ i <= 0 THEN m
    ELSE LET old_buf_size == buf_size(m)
             new_buf_size == 2 * Max(i, old_buf_size)
         IN [m EXCEPT !.buf = m.buf \o Zeros(new_buf_size - old_buf_size),
                      !.ge  = new_buf_size - (old_buf_size - m.ge),
                      !.ng  = @ + 1,
                      !.rl  = @ + old_buf_size]

\* a plausible slip: the store grows by the request, not to twice the larger
\* of request and old length
enlarge_by_exactly(m, i) ==
    IF m.st # "ok" \/ i <= 0 THEN m
    ELSE LET old_buf_size == buf_size(m)
             new_buf_size == old_buf_size + i
             resized      == m.buf \o Zeros(new_buf_size - old_buf_size)
             new_ge       == new_buf_size - (old_buf_size - m.ge)
         IN [m EXCEPT !.buf = CopyRange(resized, m.ge, new_ge, old_buf_size - m.ge),
                      !.ge  = new_ge,
                      !.gr  = @ + (old_buf_size - m.ge),
                      !.ng  = @ + 1,
                      !.rl  = @ + old_buf_size]

\* _buf.resize(new_buf_size) asks for at least twice the old length, which
\* is more than the capacity the previous resize left (the length, in
\* libstdc++ and libc++), so the vector reallocates and moves its
\* old_buf_size elements, gap slots included
enlarge_by_at_least(m, i) ==
    IF m.st # "ok" \/ i <= 0 THEN m
    ELSE LET old_buf_size == buf_size(m)
             new_buf_size == 2 * Max(i, old_buf_size)
             resized      == m.buf \o Zeros(new_buf_size - old_buf_size)
             new_ge       == new_buf_size - (old_buf_size - m.ge)
         IN [m EXCEPT !.buf = CopyRange(resized, m.ge, new_ge, old_buf_size - m.ge),
                      !.ge  = new_ge,
                      !.gr  = @ + (old_buf_size - m.ge),
                      !.ng  = @ + 1,
                      !.rl  = @ + old_buf_size]

\* a plausible slip: the gap is shifted, the elements it passes are not copied
move_cursor_right_without_copy(m, count) ==
    IF m.st # "ok" THEN m
    ELSE LET m1 == enlarge_by_at_least(m, m.ge + count - buf_size(m))
         IN [m1 EXCEPT !.gb = m.gb + count, !.ge = m.ge + count]

\* [_gap.end(), new_gap.end()) is taken after the growth, new_gap from the
\* indices read before it: when growth happened the range can be reversed,
\* which is undefined behaviour
move_cursor_right(m, count) ==
    IF m.st # "ok" THEN m
    ELSE LET m1 == enlarge_by_at_least(m, m.ge + count - buf_size(m))
             nb == m.gb + count
             ne == m.ge + count
             n  == ne - m1.ge
         IN IF n < 0 \/ ne > buf_size(m1) THEN Fail(m1, "ub")
            ELSE [m1 EXCEPT !.buf = CopyRange(m1.buf, m1.ge, m.gb, n),
                            !.gb  = nb,
                            !.ge  = ne,
                            !.mv  = @ + n]

\* new_gap.begin() = begin() + gb - count lies before begin() when count > gb
move_cursor_left(m, count) ==
    IF m.st # "ok" THEN m
    ELSE LET m1 == enlarge_by_at_least(m, count - m.gb)
             nb == m.gb - count
             ne == m.ge - count
         IN IF nb < 0 THEN Fail(m1, "ub")
            ELSE [m1 EXCEPT !.buf = CopyRange(m1.buf, nb, m.ge - count, count),
                            !.gb  = nb,
                            !.ge  = ne,
                            !.mv  = @ + count]

move_cursor_to(m, index) ==
    IF m.st # "ok" \/ index = m.gb THEN m
    ELSE IF index > m.gb THEN move_cursor_right(m, index - m.gb)
    ELSE move_cursor_left(m, m.gb - index)

\* assert(c): aborts in a checked build; with NDEBUG execution goes on
Assert_(m, chk, c) ==
    IF m.st # "ok" \/ c THEN m
    ELSE IF chk THEN Fail(m, "assert") ELSE m

\* a plausible slip: the cursor is not relocated before the copy
insert_no_relocation(m, chk, index, data) ==
    LET m0 == Assert_(m, chk, 0 <= index /\ index <= size(m))
        m1 == enlarge_by_at_least(m0, Len(data))
    IN IF m1.st # "ok" THEN m1
       ELSE [m1 EXCEPT
                !.buf = [j \in 1..Len(m1.buf) |->
                            IF j - 1 >= m1.gb /\ j - 1 < m1.gb + Len(data)
                            THEN data[j - m1.gb] ELSE m1.buf[j]],
                !.gb  = m1.gb + Len(data)]

\* a plausible slip: the precondition is asserted after the growth
insert_asserting_late(m, chk, index, data) ==
    LET m1 == enlarge_by_at_least(m, Len(data))
        m0 == Assert_(m1, chk, 0 <= index /\ index <= size(m1))
        m2 == move_cursor_to(m0, index)
    IN IF m2.st # "ok" THEN m2
       ELSE IF m2.gb + Len(data) > m2.ge THEN Fail(m2, "ub")
       ELSE [m2 EXCEPT
                !.buf = [j \in 1..Len(m2.buf) |->
                            IF j - 1 >= m2.gb /\ j - 1 < m2.gb + Len(data)
                            THEN data[j - m2.gb] ELSE m2.buf[j]],
                !.gb  = m2.gb + Len(data)]

\* insert(int64_t index, V data); writing data past the end of the gap is
\* undefined behaviour (it cannot happen for 0 <= index <= size())
insert(m, chk, index, data) ==
    LET m0 == Assert_(m, chk, 0 <= index /\ index <= size(m))
        m1 == enlarge_by_at_least(m0, Len(data))
        m2 == move_cursor_to(m1, index)
    IN IF m2.st # "ok" THEN m2
       ELSE IF m2.gb + Len(data) > m2.ge THEN Fail(m2, "ub")
       ELSE [m2 EXCEPT
                !.buf = [j \in 1..Len(m2.buf) |->
                            IF j - 1 >= m2.gb /\ j - 1 < m2.gb + Len(data)
                            THEN data[j - m2.gb] ELSE m2.buf[j]],
                !.gb  = m2.gb + Len(data)]

----------------------------------------------------------------------------
(* remove, per variant *)

\* std::ranges::subrange::advance(n) on _gap: n < 0 moves begin() back
\* unchecked, n >= 0 moves it forward, at most to end()
advance(m, n) ==
    IF m.st # "ok" THEN m
    ELSE IF n >= 0 THEN [m EXCEPT !.gb = Min(m.gb + n, m.ge)]
    ELSE IF m.gb + n < 0 THEN Fail(m, "ub")
    ELSE [m EXCEPT !.gb = m.gb + n]

\* variant 1: remove<to_the_left = true>(count)
remove_to_the_left(m, chk, count) ==
    LET m1 == Assert_(Assert_(m, chk, count >= 0), chk, m.gb >= count)
    IN IF m1.st # "ok" THEN m1
       ELSE IF m1.gb - count < 0 \/ m1.gb - count > m1.ge THEN Fail(m1, "ub")
       ELSE [m1 EXCEPT !.gb = m1.gb - count]

remove_v1(m, chk, index, count) ==
    IF count >= 0
    THEN LET c == Min(count, size(m) - index)
         IN remove_to_the_left(move_cursor_to(m, index + c), chk, c)
    ELSE LET c == Min(-count, index)
         IN remove_to_the_left(move_cursor_to(m, index), chk, c)

\* a plausible slip: the left run is taken to end before index, as in the
\* other two headers
remove_v2_before_index(m, index, count) ==
    IF index < 0 THEN Fail(m, "ub")
    ELSE IF count >= 0
    THEN LET c == Min(count, size(m) - index)
         IN advance(move_cursor_to(m, index + c), -c)
    ELSE LET c == Min(-count, index)
         IN advance(move_cursor_to(m, index), -c)

\* variant 2: [[assume(index >= 0)]]; a negative count removes (index + count, index]
remove_v2(m, index, count) ==
    IF index < 0 THEN Fail(m, "ub")
    ELSE IF count >= 0
    THEN LET c == Min(count, size(m) - index)
         IN advance(move_cursor_to(m, index + c), -c)
    ELSE LET c == Min(-count, index + 1)
         IN advance(move_cursor_to(m, index + 1), -c)

\* a plausible slip: count is not clamped to the elements right of index
remove_v3_unclamped(m, index, count) ==
    IF count >= 0
    THEN advance(move_cursor_to(m, index + count), -count)
    ELSE LET c == Min(-count, index)
         IN advance(move_cursor_to(m, index), -c)

\* variant 3: a negative count removes [index + count, index)
remove_v3(m, index, count) ==
    IF count >= 0
    THEN LET c == Min(count, size(m) - index)
         IN advance(move_cursor_to(m, index + c), -c)
    ELSE LET c == Min(-count, index)
         IN advance(move_cursor_to(m, index), -c)

remove(v, m, chk, index, count) ==
    CASE v = 1 -> remove_v1(m, chk, index, count)
      [] v = 2 -> remove_v2(m, index, count)
      [] v = 3 -> remove_v3(m, index, count)

remove_prefix(v, m, chk, count) == remove(v, m, chk, 0, count)

remove_suffix(v, m, chk, count) ==
    CASE v = 1 -> remove(v, m, chk, size(m) - count, count)
      [] v = 2 -> remove(v, m, chk, size(m) - 1, -count)
      [] v = 3 -> remove(v, m, chk, size(m), -count)

\* a plausible slip: gap_id().second taken for the cursor
insert_at_gap_end(m, chk, data) == insert(m, chk, m.ge, data)

\* insert(data) / insert(T t): insert(gap_id().first, data)
insert_at_cursor(m, chk, data) == insert(m, chk, m.gb, data)

\* a plausible slip: the cursor taken for the front
push_front_at_cursor(m, chk, data) == insert(m, chk, m.gb, data)

\* a plausible slip: the cursor is taken back to the insertion point
push_front_rewinding(m, chk, data) == move_cursor_to(insert(m, chk, 0, data), 0)

push_front(m, chk, data) == insert(m, chk, 0, data)

push_back(m, chk, data) == insert(m, chk, size(m), data)

\* a plausible slip: the storage is kept and the gap made to cover it
clear_keeping_storage(m) == [m EXCEPT !.gb = 0, !.ge = Len(m.buf)]

\* _buf.clear(); _gap = gap_t{_buf}
clear(m) == [m EXCEPT !.buf = <<>>, !.gb = 0, !.ge = 0]

----------------------------------------------------------------------------
(* Element access.  A read is [at |-> raw index read]; reading outside      *)
(* [0, _buf.size()) is undefined behaviour.                                 *)

\* variant 1: view().front(), the first element of the first non-empty part
front_v1(m) == IF m.gb > 0 THEN 0 ELSE m.ge

front_v2(m) == IF m.gb = m.ge \/ m.gb # 0 THEN 0 ELSE m.ge

\* variant 3 returns *(_gap.end() + 1)
front_v3(m) == IF m.gb = m.ge \/ m.gb # 0 THEN 0 ELSE m.ge + 1

front(v, m) ==
    CASE v = 1 -> front_v1(m)
      [] v = 2 -> front_v2(m)
      [] v = 3 -> front_v3(m)

\* variant 1: view().back(), the last element of the last non-empty part
back_v1(m) == IF m.ge < Len(m.buf) THEN Len(m.buf) - 1 ELSE m.gb - 1

\* a plausible slip: the last slot of the store is always taken
back_at_store_end(m) == Len(m.buf) - 1

\* variants 2 and 3
back_v23(m) ==
    IF m.gb = m.ge \/ m.ge # Len(m.buf) THEN Len(m.buf) - 1 ELSE m.gb - 1

back(v, m) == IF v = 1 THEN back_v1(m) ELSE back_v23(m)

\* the raw index the j-th element (0-based) of view() refers to: the j-th
\* of the subrange [begin, begin + gb) followed by [begin + ge, end)
view_at(m, j) == IF j < m.gb THEN j ELSE m.ge + (j - m.gb)

\* the value a caller assigns through a reference (no insert passes it)
Written == -1

----------------------------------------------------------------------------
(* State *)

Arg(index, count, len) == [index |-> index, count |-> count, len |-> len]
NoArg == Arg(0, 0, 0)

\* no insert is in progress
NoCall == [pc |-> "idle", index |-> 0, data |-> <<>>]

Init ==
    /\ variant \in Variants
    /\ checked \in BOOLEAN
    /\ buf = <<>>
    /\ gb = 0
    /\ ge = 0
    /\ status = "ok"
    /\ op = "construct"
    /\ arg = NoArg
    /\ before = 0
    /\ work = [calls |-> 0, copies |-> 0]
    /\ ret = <<>>
    /\ call = NoCall

Self == Machine(buf, gb, ge)

\* the logical content and the data a caller passes
Content == view(Self)
Lens == 0..MaxData
Counts == 0..MaxCount
Indices == 0..MaxStore
DataOf(len) == Fresh(Len(buf), len)

\* the effect of a mutating member function that ended in machine m; an
\* operation that ended in undefined behaviour may also have left the
\* object as it was
Commit(name, a, m) ==
    /\ Len(buf) <= MaxStore
    /\ \/ /\ buf' = m.buf
          /\ gb' = m.gb
          /\ ge' = m.ge
       \/ /\ m.st = "ub"
          /\ UNCHANGED <<buf, gb, ge>>
    /\ status' = m.st
    /\ op' = name
    /\ arg' = a
    /\ before' = size(Self)
    /\ ret' = <<>>
    /\ UNCHANGED <<variant, checked, work, call>>

\* a call that broke a precondition and that no assertion stopped: where it
\* returns at all, the object is outside the contract from then on
Unchecked(m) == IF m.st = "ok" THEN [m EXCEPT !.st = "unchecked"] ELSE m

\* the indices tried outside [0, size()]
OutsideIndices == (-1)..(MaxStore + 1)

\* insert(index, data) with index outside [0, size()]
InsertOutside(index, len) ==
    /\ status = "ok"
    /\ index < 0 \/ index > size(Self)
    /\ Commit("insert_outside", Arg(index, 0, len),
              Unchecked(insert(Self, checked, index, DataOf(len))))

\* remove(index, count) with index outside [0, size()]
RemoveOutside(index, count) ==
    /\ status = "ok"
    /\ index < 0 \/ index > size(Self)
    /\ Commit("remove_outside", Arg(index, count, 0),
              Unchecked(remove(variant, Self, checked, index, count)))

\* a plausible slip: the cursor is left at the insertion point, in front of
\* the inserted data
Insert_rewinding(index, len) ==
    /\ status = "ok"
    /\ index <= size(Self)
    /\ Commit("insert", Arg(index, 0, len),
              move_cursor_to(insert(Self, checked, index, DataOf(len)), index))

Insert(index, len) ==
    /\ status = "ok"
    /\ index <= size(Self)
    /\ Commit("insert", Arg(index, 0, len), insert(Self, checked, index, DataOf(len)))

InsertAtCursor(len) ==
    /\ status = "ok"
    /\ Commit("insert_at_cursor", Arg(gb, 0, len), insert_at_cursor(Self, checked, DataOf(len)))

PushFront(len) ==
    /\ status = "ok"
    /\ Commit("push_front", Arg(0, 0, len), push_front(Self, checked, DataOf(len)))

PushBack(len) ==
    /\ status = "ok"
    /\ Commit("push_back", Arg(size(Self), 0, len), push_back(Self, checked, DataOf(len)))

Remove(index, count) ==
    /\ status = "ok"
    /\ index <= size(Self)
    /\ Commit("remove", Arg(index, count, 0), remove(variant, Self, checked, index, count))

RemovePrefix(count) ==
    /\ status = "ok"
    /\ Commit("remove_prefix", Arg(0, count, 0), remove_prefix(variant, Self, checked, count))

RemoveSuffix(count) ==
    /\ status = "ok"
    /\ Commit("remove_suffix", Arg(0, count, 0), remove_suffix(variant, Self, checked, count))

Clear ==
    /\ status = "ok"
    /\ buf' = clear(Self).buf
    /\ gb' = clear(Self).gb
    /\ ge' = clear(Self).ge
    /\ op' = "clear"
    /\ arg' = NoArg
    /\ before' = size(Self)
    /\ ret' = <<>>
    /\ UNCHANGED <<variant, checked, status, work, call>>

\* a plausible slip: a query first closes the gap at the end of the
\* content, to hand out one contiguous range
Query_closing_gap(name, result, st) ==
    /\ buf' = move_cursor_to(Self, size(Self)).buf
    /\ gb' = move_cursor_to(Self, size(Self)).gb
    /\ ge' = move_cursor_to(Self, size(Self)).ge
    /\ status' = st
    /\ op' = name
    /\ arg' = NoArg
    /\ before' = size(Self)
    /\ ret' = result
    /\ UNCHANGED <<variant, checked, work, call>>

\* a query: the object is untouched, ret records what was returned
Query(name, result, st) ==
    /\ status' = st
    /\ op' = name
    /\ arg' = NoArg
    /\ before' = size(Self)
    /\ ret' = result
    /\ UNCHANGED <<variant, checked, buf, gb, ge, work, call>>

\* what reading raw index at yields: the element, or anything when at is
\* outside the backing store
ReadAt(name, at) ==
    IF 0 <= at /\ at < Len(buf)
    THEN Query(name, <<buf[at + 1]>>, "ok")
    ELSE \E v \in {0} \cup {buf[j] : j \in 1..Len(buf)} :
            Query(name, <<v>>, "ub")

\* an assignment through a reference to raw index at; the reference of
\* versions 2 and 3 is T& (version 1 hands out values and a read-only
\* view); assigning outside the store is undefined behaviour
WriteAt(name, j, at) ==
    /\ variant # 1
    /\ Len(buf) <= MaxStore
    /\ Cardinality({r \in 1..Len(buf) : buf[r] = Written}) < MaxWritten
    /\ IF 0 <= at /\ at < Len(buf)
       THEN buf' = [buf EXCEPT ![at + 1] = Written] /\ status' = "ok"
       ELSE buf' = buf /\ status' = "ub"
    /\ op' = name
    /\ arg' = Arg(j, 0, 0)
    /\ before' = size(Self)
    /\ ret' = <<>>
    /\ UNCHANGED <<variant, checked, gb, ge, work, call>>

\* gb.front() = v
WriteFront ==
    /\ status = "ok"
    /\ size(Self) >= 1
    /\ WriteAt("write_front", 0, front(variant, Self))

\* gb.back() = v
WriteBack ==
    /\ status = "ok"
    /\ size(Self) >= 1
    /\ WriteAt("write_back", size(Self) - 1, back(variant, Self))

\* auto gbv = gb.view(); *(gbv.begin() + j) = v
WriteView(j) ==
    /\ status = "ok"
    /\ j < size(Self)
    /\ WriteAt("write_view", j, view_at(Self, j))

Front ==
    /\ status = "ok"
    /\ ReadAt("front", front(variant, Self))

Back ==
    /\ status = "ok"
    /\ ReadAt("back", back(variant, Self))

View ==
    /\ status = "ok"
    /\ Query("view", view(Self), "ok")

Size ==
    /\ status = "ok"
    /\ Query("size", <<size(Self)>>, "ok")

Empty ==
    /\ status = "ok"
    /\ Query("empty", <<IF empty(Self) THEN 1 ELSE 0>>, "ok")

Next ==
    \/ \E index \in Indices, len \in Lens : Insert(index, len)
    \/ \E len \in Lens : InsertAtCursor(len)
    \/ \E len \in Lens : PushFront(len)
    \/ \E len \in Lens : PushBack(len)
    \/ \E index \in Indices, count \in (-MaxCount)..MaxCount : Remove(index, count)
    \/ \E count \in Counts : RemovePrefix(count)
    \/ \E count \in Counts : RemoveSuffix(count)
    \/ Clear
    \/ Front
    \/ Back
    \/ View
    \/ Size
    \/ Empty

Spec == Init /\ [][Next]_vars

\* the same program whose callers also assign through the references that
\* front(), back() and view() hand out
NextWrite ==
    \/ Next
    \/ WriteFront
    \/ WriteBack
    \/ \E j \in Indices : WriteView(j)

SpecWrite == Init /\ [][NextWrite]_vars

\* the same program whose callers also break the index precondition of
\* insert and remove
NextMisuse ==
    \/ Next
    \/ \E index \in OutsideIndices, len \in Lens : InsertOutside(index, len)
    \/ \E index \in OutsideIndices, count \in (-MaxCount)..MaxCount :
          RemoveOutside(index, count)

SpecMisuse == Init /\ [][NextMisuse]_vars

\* the elements pushed by the metered run
Elements == {1, 2}

\* push_back(T t) metered: insert(size(), t), that is insert(size(),
\* std::views::single(t))
PushBackOne(t) ==
    /\ status = "ok"
    /\ work.calls < MaxPushes
    /\ LET m == push_back(Self, checked, <<t>>)
       IN /\ buf' = m.buf
          /\ gb' = m.gb
          /\ ge' = m.ge
          /\ status' = m.st
          /\ work' = [calls  |-> work.calls + 1,
                      copies |-> work.copies + m.rl + m.gr + m.mv]
    /\ op' = "push_back"
    /\ arg' = Arg(size(Self), 0, 1)
    /\ before' = size(Self)
    /\ ret' = <<>>
    /\ UNCHANGED <<variant, checked, call>>

\* a run of single-element push_back calls on a new buffer
NextPushBack == \E t \in Elements : PushBackOne(t)

SpecPushBack == Init /\ [][NextPushBack]_vars

----------------------------------------------------------------------------
(* insert(index, data), statement by statement: the assertion, then        *)
(* enlarge_by_at_least(data.size()), then move_cursor_to(index), then the  *)
(* copy of data and the new _gap.  call.pc is the statement to run next.   *)

\* the call and its assertion, which a valid index passes
InsertCall(index, len) ==
    /\ call.pc = "idle"
    /\ status = "ok"
    /\ Len(buf) <= MaxStore
    /\ index <= size(Self)
    /\ call' = [pc |-> "grow", index |-> index, data |-> DataOf(len)]
    /\ op' = "insert"
    /\ arg' = Arg(index, 0, len)
    /\ before' = size(Self)
    /\ ret' = <<>>
    /\ UNCHANGED <<variant, checked, buf, gb, ge, status, work>>

\* one statement of the body: the object becomes m, the call goes on at next
InsertStep(m, next) ==
    /\ buf' = m.buf
    /\ gb' = m.gb
    /\ ge' = m.ge
    /\ status' = m.st
    /\ call' = [call EXCEPT !.pc = next]
    /\ UNCHANGED <<variant, checked, op, arg, before, work, ret>>

\* a plausible slip: the growth statement is missing
InsertGrow_skipped ==
    /\ call.pc = "grow"
    /\ InsertStep(Self, "relocate")

\* enlarge_by_at_least(data.size());
InsertGrow ==
    /\ call.pc = "grow"
    /\ InsertStep(enlarge_by_at_least(Self, Len(call.data)), "relocate")

\* move_cursor_to(index);
InsertRelocate ==
    /\ call.pc = "relocate"
    /\ status = "ok"
    /\ InsertStep(move_cursor_to(Self, call.index), "copy")

\* std::ranges::copy(data, _buf.begin() + gb); _gap = gap_t(gb + data.size(), ge):
\* a copy that does not fit into the gap writes past it
InsertCopy ==
    /\ call.pc = "copy"
    /\ status = "ok"
    /\ InsertStep(IF gb + Len(call.data) > ge THEN Fail(Self, "ub")
                  ELSE [Self EXCEPT
                           !.buf = [j \in 1..Len(buf) |->
                                       IF j - 1 >= gb /\ j - 1 < gb + Len(call.data)
                                       THEN call.data[j - gb] ELSE buf[j]],
                           !.gb  = gb + Len(call.data)],
                  "idle")

NextInsertSteps ==
    \/ \E index \in Indices, len \in Lens : InsertCall(index, len)
    \/ InsertGrow
    \/ InsertRelocate
    \/ InsertCopy

SpecInsertSteps == Init /\ [][NextInsertSteps]_vars

----------------------------------------------------------------------------
(* Properties.  In an action formula the unprimed state is the buffer at    *)
(* the call and the primed state the buffer on return; op' names the call   *)
(* and arg' holds its arguments.                                            *)

\* the gap invariant of the data model
GapInvariant == 0 <= gb /\ gb <= ge /\ ge <= Len(buf)

\* the raw index of logical index j (0-based), skipping the gap
RawIndex(j) == IF j < gb THEN j ELSE j + (ge - gb)

\* the data passed by the call that made this step
Passed == DataOf(arg'.len)

\* C1 (insert content law): insert(i, d) on content C of size n, 0 <= i <= n,
\* returns normally with content C[0:i] + d + C[i:n] and size n + |d|.
InsertContentLaw ==
    [][op' = "insert" =>
          /\ status' = "ok"
          /\ Content' = Slice(Content, 0, arg'.index) \o Passed
                           \o Slice(Content, arg'.index, size(Self))
          /\ size(Self)' = size(Self) + arg'.len]_vars

\* an insert of two elements strictly inside the content has returned, after
\* growing the store and relocating the cursor
InsertedInside ==
    /\ op = "insert"
    /\ status = "ok"
    /\ arg.len = 2
    /\ arg.index = 1
    /\ size(Self) = 4
    /\ gb = 3

\* C2 (remove content law, count >= 0): remove(i, k) on content C of size n,
\* 0 <= i <= n, k >= 0, returns normally with content C[0:i] + C[i+k':n],
\* k' = min(k, n - i), and size n - k'.
RemoveContentLaw ==
    [][(op' = "remove" /\ arg'.count >= 0) =>
          LET n == size(Self)
              k == Min(arg'.count, n - arg'.index)
          IN /\ status' = "ok"
             /\ Content' = Slice(Content, 0, arg'.index)
                              \o Slice(Content, arg'.index + k, n)
             /\ size(Self)' = n - k]_vars

\* a remove with a count reaching past the end has cut the tail of a content
\* of three after its first element
RemovedClamped ==
    /\ op = "remove"
    /\ status = "ok"
    /\ arg.index = 1
    /\ arg.count = MaxCount
    /\ size(Self) = 1
    /\ gb = 1
    /\ Len(buf) = 4
    /\ buf[2] # 0

\* C3 (push_front / push_back): push_front(d) on content C yields d + C,
\* push_back(d) yields C + d, and the object ends as insert(0, d) and
\* insert(size(), d) leave it.
PushLaw ==
    [][/\ op' = "push_front" =>
             /\ status' = "ok"
             /\ Content' = Passed \o Content
             /\ <<buf', gb', ge'>> =
                   LET m == insert(Self, checked, 0, Passed)
                   IN <<m.buf, m.gb, m.ge>>
       /\ op' = "push_back" =>
             /\ status' = "ok"
             /\ Content' = Content \o Passed
             /\ <<buf', gb', ge'>> =
                   LET m == insert(Self, checked, size(Self), Passed)
                   IN <<m.buf, m.gb, m.ge>>]_vars

\* a push_front of two elements has returned on a buffer whose content lay
\* left of the gap: the cursor had to go to the front across the content
PushedFront ==
    /\ op = "push_front"
    /\ status = "ok"
    /\ arg.len = 2
    /\ size(Self) >= 3
    /\ gb = 2
    /\ Len(buf) - ge = size(Self) - 2

\* C4 (cursor-form insert): insert(d) with the cursor at c yields content
\* C[0:c] + d + C[c:n]; relocation copies no element, gap_end moves only by
\* the growth of the store, and the elements left and right of the gap stay
\* where they were (the right ones relative to the end of the store).
CursorInsertLaw ==
    [][op' = "insert_at_cursor" =>
          LET m == insert_at_cursor(Self, checked, Passed)
              right == Len(buf) - ge
          IN /\ status' = "ok"
             /\ Content' = Slice(Content, 0, gb) \o Passed
                              \o Slice(Content, gb, size(Self))
             /\ m.mv = 0
             /\ gb' = gb + arg'.len
             /\ ge' - ge = Len(buf') - Len(buf)
             /\ \A j \in 1..gb : buf'[j] = buf[j]
             /\ \A j \in 1..right : buf'[ge' + j] = buf[ge + j]]_vars

\* a cursor-form insert has put elements strictly inside the content
CursorInsertedInside ==
    /\ op = "insert_at_cursor"
    /\ status = "ok"
    /\ arg.len >= 1
    /\ arg.index >= 1
    /\ ge < Len(buf)

\* C5 (remove_prefix / remove_suffix): on content C of size n, for every
\* k >= 0, remove_prefix(k) returns normally with content C[min(k,n):n],
\* remove_suffix(k) with content C[0:n-min(k,n)], and the gap invariant
\* holds afterwards.
PrefixSuffixLaw ==
    [][/\ op' = "remove_prefix" =>
             LET n == size(Self)
             IN /\ status' = "ok"
                /\ Content' = Slice(Content, Min(arg'.count, n), n)
                /\ GapInvariant'
       /\ op' = "remove_suffix" =>
             LET n == size(Self)
             IN /\ status' = "ok"
                /\ Content' = Slice(Content, 0, n - Min(arg'.count, n))
                /\ GapInvariant']_vars

\* C6 (remove, negative count, reference rule): remove(i, -k) on content C
\* of size n, 0 <= i <= n, k > 0, returns normally with content
\* C[0:i-k'] + C[i:n], k' = min(k, i), and size n - k'.
RemoveLeftReferenceRule ==
    [][(op' = "remove" /\ arg'.count < 0) =>
          LET n == size(Self)
              k == Min(-arg'.count, arg'.index)
          IN /\ status' = "ok"
             /\ Content' = Slice(Content, 0, arg'.index - k)
                              \o Slice(Content, arg'.index, n)
             /\ size(Self)' = n - k]_vars

ClearLaw ==
    [][op' = "clear" =>
          /\ status' = "ok"
          /\ size(Self)' = 0
          /\ empty(Self)'
          /\ gb' = 0
          /\ ge' = 0
          /\ buf' = <<>>
          /\ (op = "clear" => UNCHANGED <<buf, gb, ge>>)]_vars

\* clear() has returned on a buffer that held three or more elements
Cleared ==
    /\ op = "clear"
    /\ status = "ok"
    /\ before >= 3
    /\ buf = <<>>

\* C9 (view): in every state the program has reached without undefined
\* behaviour, view() has exactly size() elements, and its j-th element is
\* the backing-store element at the raw index of j, which never lies in the
\* gap: the elements left of the gap, then those right of it.
ViewLaw ==
    status = "ok" =>
        /\ GapInvariant
        /\ Len(view(Self)) = size(Self)
        /\ \A j \in 0..(size(Self) - 1) :
              /\ view(Self)[j + 1] = buf[RawIndex(j) + 1]
              /\ ~(gb <= RawIndex(j) /\ RawIndex(j) < ge)
              /\ 0 <= RawIndex(j) /\ RawIndex(j) < Len(buf)
        /\ (op = "view" => ret = Slice(buf, 0, gb) \o Slice(buf, ge, Len(buf)))

\* view() has returned on a buffer with elements on both sides of a
\* non-empty gap
ViewedAcrossGap ==
    /\ op = "view"
    /\ status = "ok"
    /\ 0 < gb
    /\ gb < ge
    /\ ge < Len(buf)
    /\ Len(ret) >= 3

\* C10 (front): with size() >= 1, front() returns the logical element at
\* index 0, read at a raw index inside the backing store and outside the
\* gap, also when the gap begins at raw index 0.
FrontLaw ==
    [][(op' = "front" /\ size(Self) >= 1) =>
          LET at == front(variant, Self)
          IN /\ status' = "ok"
             /\ ret' = <<Content[1]>>
             /\ 0 <= at /\ at < Len(buf)
             /\ ~(gb <= at /\ at < ge)]_vars

\* C11 (back): with size() >= 1, back() returns the last element of view(),
\* read at a raw index inside the backing store and outside the gap: the
\* last slot of the store when the gap is empty or interior, the slot just
\* before the gap when the gap ends at the end of the store.
BackLaw ==
    [][(op' = "back" /\ size(Self) >= 1) =>
          LET at == back(variant, Self)
          IN /\ status' = "ok"
             /\ ret' = <<Content[size(Self)]>>
             /\ 0 <= at /\ at < Len(buf)
             /\ ~(gb <= at /\ at < ge)
             /\ at = IF ge = Len(buf) THEN gb - 1 ELSE Len(buf) - 1]_vars

\* back() has returned the element just before a non-empty gap that ends at
\* the end of the store
BackBeforeGap ==
    /\ op = "back"
    /\ status = "ok"
    /\ gb >= 2
    /\ gb < ge
    /\ ge = Len(buf)
    /\ ret = <<buf[gb]>>

\* C12 (gap invariant): every public mutating operation called within its
\* preconditions (insert in all forms, push_front, push_back, remove with
\* 0 <= index <= size() and any signed count, remove_prefix, remove_suffix,
\* clear) returns with 0 <= gap begin <= gap end <= length of the store, so
\* the cursor lies in [0, size()].
GapInvariantAfterCalls ==
    [][op' \in {"insert", "insert_at_cursor", "push_front", "push_back",
                "remove", "remove_prefix", "remove_suffix", "clear"} =>
          /\ status' = "ok"
          /\ GapInvariant'
          /\ 0 <= gb' /\ gb' <= size(Self)']_vars

\* C13 (size/empty consistency): in every state, empty() is exactly
\* size() = 0, size() is the length of the store minus the length of the
\* gap and is never negative; the calls return these values; a freshly
\* constructed buffer has size() = 0 and is empty.
SizeEmptyLaw ==
    status = "ok" =>
        /\ empty(Self) <=> (size(Self) = 0)
        /\ size(Self) = Len(buf) - (ge - gb)
        /\ size(Self) >= 0
        /\ (op = "size" => ret = <<Len(buf) - (ge - gb)>>)
        /\ (op = "empty" => ret = <<IF Len(buf) - (ge - gb) = 0 THEN 1 ELSE 0>>)
        /\ (op = "construct" => size(Self) = 0 /\ empty(Self))

\* empty() has returned true on a buffer whose store is not empty
EmptyWithStore ==
    /\ op = "empty"
    /\ status = "ok"
    /\ ret = <<1>>
    /\ Len(buf) >= 4
    /\ ge - gb = Len(buf)

\* C14 (remove of nothing): remove(index, 0) with 0 <= index <= size(),
\* remove_prefix(0) and remove_suffix(0) return with the buffer unchanged:
\* same content, same size, same length of the store, same gap.
RemoveZeroNoOp ==
    [][(op' \in {"remove", "remove_prefix", "remove_suffix"} /\ arg'.count = 0) =>
          /\ status' = "ok"
          /\ Content' = Content
          /\ size(Self)' = size(Self)
          /\ Len(buf') = Len(buf)
          /\ gb' = gb
          /\ ge' = ge]_vars

\* C15 (write-through): assigning through the reference returned by
\* front(), by back(), or through element j of view() changes exactly the
\* logical element at that position; the other elements, size(), the gap
\* and the length of the store stay, and a view taken before the write
\* (its two ranges are those of the gap at the call) shows the new value.
WriteThroughLaw ==
    [][op' \in {"write_front", "write_back", "write_view"} =>
          LET n == size(Self)
              j == CASE op' = "write_front" -> 0
                     [] op' = "write_back"  -> n - 1
                     [] op' = "write_view"  -> arg'.index
          IN /\ status' = "ok"
             /\ Content' = [Content EXCEPT ![j + 1] = Written]
             /\ size(Self)' = n
             /\ gb' = gb /\ ge' = ge
             /\ Len(buf') = Len(buf)
             /\ Slice(buf', 0, gb) \o Slice(buf', ge, Len(buf))
                   = [Content EXCEPT ![j + 1] = Written]]_vars

\* C16 (queries): size(), empty(), view(), front() and back() leave the
\* backing store, its length and the gap as they were, so the content stays
\* and view() returns the same sequence again, call after call, until a
\* mutating call.
QueriesPure ==
    [][op' \in {"size", "empty", "view", "front", "back"} =>
          /\ UNCHANGED <<buf, gb, ge>>
          /\ Len(buf') = Len(buf)
          /\ Content' = Content
          /\ (op' = "view" => ret' = Content)
          /\ ((op = "view" /\ op' = "view") => ret' = ret)]_vars

\* size() has returned on a buffer with elements on both sides of a
\* non-empty gap
QueriedAcrossGap ==
    /\ op = "size"
    /\ status = "ok"
    /\ ret = <<3>>
    /\ 0 < gb
    /\ gb < ge
    /\ ge < Len(buf)

\* C17 (checked insert precondition): in a checked build insert(index,
\* data) with index < 0 or index > size() ends in an assertion failure, and
\* the assertion comes before any growth, relocation or write: the store
\* and the gap are as they were at the call.
InsertChecked ==
    [][(op' = "insert_outside" /\ checked) =>
          LET m == insert(Self, checked, arg'.index, Passed)
          IN /\ status' = "assert"
             /\ UNCHANGED <<buf, gb, ge>>
             /\ m.ng = 0 /\ m.gr = 0 /\ m.mv = 0]_vars

\* a checked insert of two elements beyond size() has failed its assertion
\* on a buffer with content
InsertRejected ==
    /\ op = "insert_outside"
    /\ checked
    /\ status = "assert"
    /\ arg.len = 2
    /\ arg.index = size(Self) + 1
    /\ size(Self) >= 2

\* C18 (checked remove and element access): in a checked build remove(index,
\* count) with index outside [0, size()], and front() and back() on an
\* empty buffer, end in an assertion failure: the gap is not relocated, its
\* bounds and the store are not changed, no element is read.
AccessChecked ==
    [][(checked /\ (\/ op' = "remove_outside"
                    \/ (op' \in {"front", "back"} /\ size(Self) = 0))) =>
          /\ status' = "assert"
          /\ UNCHANGED <<buf, gb, ge>>]_vars

\* C19 (cursor after push_front), as stated: when push_front(d) returns,
\* the cursor (gap begin) is at logical index 0, where d was inserted.
PushFrontCursorAtZero ==
    [][op' = "push_front" => (status' = "ok" /\ gb' = 0)]_vars

\* C19 (cursor after push_front), amended: when push_front(d) returns, the
\* cursor is at logical index |d|, just behind the inserted data, which is
\* the content left of the gap; a cursor-form insert(e) that follows inserts
\* at |d| and gives d ++ e ++ the old content.
PushFrontCursorBehindData ==
    [][/\ op' = "push_front" =>
             /\ status' = "ok"
             /\ gb' = arg'.len
             /\ Slice(Content', 0, gb') = Passed
             /\ Slice(Content', gb', size(Self)') = Content
       /\ (op = "push_front" /\ op' = "insert_at_cursor") =>
             /\ status' = "ok"
             /\ arg'.index = arg.len
             /\ Content' = Slice(Content, 0, arg.len) \o Passed
                               \o Slice(Content, arg.len, size(Self))]_vars

\* push_front of one element has returned on a buffer that held two or more
PushedFrontOfContent ==
    /\ op = "push_front"
    /\ status = "ok"
    /\ arg.len = 1
    /\ before >= 2
    /\ gb = 1
    /\ size(Self) = before + 1

\* C20 (amortized growth): a run of m single-element push_back calls on a
\* new buffer copies O(m) elements in all, growth and cursor relocation
\* counted: at most LinearFactor * m.
AmortizedLinear == work.copies <= LinearFactor * work.calls

\* C21 (growth only if needed): an insert (any form) makes sure the gap
\* holds |data| before it relocates, and grows the store only when needed:
\* if the gap has |data| slots or more at the call, the store has the same
\* length on return.
GrowthOnlyIfNeeded ==
    [][(/\ op' \in {"insert", "insert_at_cursor", "push_front", "push_back"}
        /\ ge - gb >= arg'.len) =>
          /\ status' = "ok"
          /\ Len(buf') = Len(buf)]_vars

\* C22 (cursor after insert): when a valid insert(index, d) of any form
\* returns, the gap begins at index + |d| and n - index elements lie right
\* of the gap; a cursor-form insert that follows an insert therefore lands
\* directly behind the data of that insert, so a run of them lays its data
\* down contiguously in call order.
CursorAfterInsert ==
    [][op' \in {"insert", "insert_at_cursor", "push_front", "push_back"} =>
          /\ status' = "ok"
          /\ gb' = arg'.index + arg'.len
          /\ Len(buf') - ge' = size(Self) - arg'.index
          /\ Slice(Content', arg'.index, gb') = Passed
          /\ (/\ op \in {"insert", "insert_at_cursor", "push_front", "push_back"}
              /\ op' = "insert_at_cursor") =>
                /\ arg'.index = arg.index + arg.len
                /\ Content' = Slice(Content, 0, arg.index + arg.len) \o Passed
                                  \o Slice(Content, arg.index + arg.len, size(Self))]_vars

\* an insert of one element at index 1 has returned on a buffer that held
\* two or more elements
InsertedBeforeCursor ==
    /\ op = "insert"
    /\ status = "ok"
    /\ arg.index = 1
    /\ arg.len = 1
    /\ before >= 2
    /\ gb = 2
    /\ Len(buf) - ge = before - 1

\* the run [a, a + k) that remove(index, count) may delete from a content
\* of n elements: for count >= 0 the clamped run that starts at index, for
\* count < 0 a run of up to |count| elements that ends just before index
\* or at index
DeletedRuns(n, index, count) ==
    IF count >= 0
    THEN {<<index, Min(count, n - index)>>}
    ELSE {<<b - k, k>> : <<b, k>> \in
             {<<index, Min(-count, index)>>,
              <<index + 1, Min(-count, index + 1)>>}}

\* C23 (cursor after remove): when a valid remove(index, count), of either
\* sign, has deleted the run [a, b), the cursor is at a and the deleted
\* elements lie in the gap, at its begin; a cursor-form insert that follows
\* puts its data where the run was.
CursorAfterRemove ==
    [][/\ op' = "remove" =>
             LET n == size(Self)
             IN /\ status' = "ok"
                /\ \E run \in DeletedRuns(n, arg'.index, arg'.count) :
                      LET a == run[1]
                          k == run[2]
                      IN /\ a + k <= n
                         /\ Content' = Slice(Content, 0, a) \o Slice(Content, a + k, n)
                         /\ gb' = a
                         /\ ge' - gb' >= k
                         /\ Slice(buf', gb', gb' + k) = Slice(Content, a, a + k)
       /\ (op = "remove" /\ op' = "insert_at_cursor") =>
             /\ status' = "ok"
             /\ arg'.index = gb
             /\ Content' = Slice(Content, 0, gb) \o Passed
                               \o Slice(Content, gb, size(Self))]_vars

\* C24 (cursor relocation is content-preserving): in every state the program
\* reaches, move_cursor_to(target) with 0 <= target <= size() ends with the
\* cursor at target and the gap shifted as a whole, [gb + shift, ge + shift),
\* so of unchanged size; the store keeps its length (no growth) and the
\* content is the same sequence; target = gb changes nothing at all.
RelocationPreservesContent ==
    status = "ok" =>
        \A target \in 0..size(Self) :
            LET m     == move_cursor_to(Self, target)
                shift == target - gb
            IN /\ m.st = "ok"
               /\ m.gb = target
               /\ m.ge = ge + shift
               /\ gap_size(m) = ge - gb
               /\ buf_size(m) = Len(buf)
               /\ m.ng = 0
               /\ view(m) = Content
               /\ (target = gb => m = Self)

\* the cursor sits inside a content of at least two elements, the gap is not
\* empty, and relocating to either end copies elements across the gap
RelocatedBothWays ==
    /\ status = "ok"
    /\ gb >= 1 /\ ge > gb /\ ge < Len(buf)
    /\ move_cursor_to(Self, 0).gb = 0
    /\ move_cursor_to(Self, 0).mv = gb
    /\ move_cursor_to(Self, size(Self)).ge = Len(buf)
    /\ move_cursor_to(Self, size(Self)).mv = Len(buf) - ge
    /\ view(move_cursor_to(Self, 0)) = Content
    /\ move_cursor_to(Self, 0).buf # buf

\* the requests enlarge_by_at_least is given: the callers pass data.size(),
\* ge + count - buf_size() and count - gb, of either sign
GrowthRequests == (-MaxCount)..(MaxStore + 1)

\* C25 (growth policy, capacity): in every state the program reaches,
\* enlarge_by_at_least(n) changes nothing when n <= 0; when n > 0 the store's
\* length becomes exactly 2 * max(n, old length), and the gap gains at
\* least n free slots.
GrowthPolicy ==
    status = "ok" =>
        \A n \in GrowthRequests :
            LET m == enlarge_by_at_least(Self, n)
            IN IF n <= 0
               THEN m = Self
               ELSE /\ m.st = "ok"
                    /\ buf_size(m) = 2 * Max(n, Len(buf))
                    /\ gap_size(m) >= (ge - gb) + n
                    /\ size(m) = size(Self)

\* a push_back of one element has just grown a store of two to four; from
\* here a request of 1 doubles the store and a request of 5 gives ten
GrownByPolicy ==
    /\ status = "ok"
    /\ op = "push_back" /\ arg.len = 1 /\ before = 1
    /\ Len(buf) = 4 /\ gb = 2 /\ ge = 4
    /\ buf_size(enlarge_by_at_least(Self, 1)) = 8
    /\ buf_size(enlarge_by_at_least(Self, 5)) = 10
    /\ gap_size(enlarge_by_at_least(Self, 5)) = 8
    /\ enlarge_by_at_least(Self, 0) = Self

\* C26 (growth preserves layout and content): in every state the program
\* reaches, wherever the gap is (at the start, at the end, in the middle,
\* empty), enlarge_by_at_least(n) with n > 0 leaves gap_begin unchanged, puts
\* the gap's end at new length - (old length - old gap end), leaves the
\* elements left of the gap in place, puts the elements that were right of
\* the gap at the tail of the new store in the same order, and leaves the
\* content the same sequence.
GrowthPreservesLayout ==
    status = "ok" =>
        \A n \in GrowthRequests :
            n > 0 =>
                LET m == enlarge_by_at_least(Self, n)
                IN /\ m.st = "ok"
                   /\ m.gb = gb
                   /\ m.ge = buf_size(m) - (Len(buf) - ge)
                   /\ Slice(m.buf, 0, gb) = Slice(buf, 0, gb)
                   /\ Slice(m.buf, m.ge, buf_size(m)) = Slice(buf, ge, Len(buf))
                   /\ view(m) = Content

\* the gap is in the middle with at least two elements right of it, and a
\* growth carries them to the tail of a store of twice the length
GrownAroundGap ==
    /\ status = "ok"
    /\ gb >= 1 /\ ge > gb /\ Len(buf) - ge >= 2
    /\ enlarge_by_at_least(Self, 1).gb = gb
    /\ enlarge_by_at_least(Self, 1).ge = ge + Len(buf)
    /\ enlarge_by_at_least(Self, 1).gr = Len(buf) - ge
    /\ Slice(enlarge_by_at_least(Self, 1).buf, ge + Len(buf), 2 * Len(buf))
           = Slice(buf, ge, Len(buf))

\* the raw positions at which two stores of one length differ
Changed(s, t) == {r \in 0..(Len(s) - 1) : s[r + 1] # t[r + 1]}

\* C27 (insert step ordering): within every insert(index, data) with
\* 0 <= index <= size() the growth statement runs first and completes, with
\* the cursor still where it was and room for data in the gap, before the
\* relocation starts; the relocation leaves the store's length as it is (it
\* invokes no growth), and the store's length changes in no statement but the
\* growth; the copy of data writes raw positions in [gb, gb + |data|) only,
\* and gb + |data| <= ge.
InsertStepOrdering ==
    [][/\ call.pc = "idle" => call'.pc = "grow"
       /\ call.pc = "grow" =>
             /\ call'.pc = "relocate"
             /\ status' = "ok"
             /\ gb' = gb
             /\ Content' = Content
             /\ ge' - gb' >= Len(call.data)
             /\ Len(buf') = IF Len(call.data) > 0
                            THEN 2 * Max(Len(call.data), Len(buf))
                            ELSE Len(buf)
       /\ call.pc = "relocate" =>
             /\ call'.pc = "copy"
             /\ status' = "ok"
             /\ Len(buf') = Len(buf)
             /\ gb' = call.index
             /\ ge' - gb' = ge - gb
             /\ Content' = Content
       /\ call.pc = "copy" =>
             /\ call'.pc = "idle"
             /\ status' = "ok"
             /\ gb + Len(call.data) <= ge
             /\ Len(buf') = Len(buf)
             /\ Changed(buf, buf') \subseteq gb..(gb + Len(call.data) - 1)
             /\ Slice(buf', gb, gb + Len(call.data)) = call.data
             /\ gb' = gb + Len(call.data)
             /\ ge' = ge
       /\ Len(buf') # Len(buf) => call.pc = "grow"]_vars

\* an insert of two elements at index 1 of a content of at least two has
\* run all its statements: the store was grown, the cursor moved, the data
\* copied behind it
InsertedStepByStep ==
    /\ call.pc = "idle"
    /\ status = "ok"
    /\ op = "insert"
    /\ call.index = 1
    /\ Len(call.data) = 2
    /\ before >= 2
    /\ gb = 3
    /\ Slice(buf, 1, 3) = call.data
    /\ Len(buf) - ge = before - 1

\* the clamped counts k' a removal may have, by the call made on a content
\* of n elements
ClampedCounts(name, n, index, count) ==
    CASE name = "remove" -> {run[2] : run \in DeletedRuns(n, index, count)}
      [] name = "remove_prefix" -> {Min(count, n)}
      [] name = "remove_suffix" -> {Min(count, n)}

\* C28 (deletion is pure gap growth): every remove, remove_prefix and
\* remove_suffix call with valid arguments returns with the backing store's
\* length unchanged and the gap larger by exactly the clamped count k'
\* (size() smaller by k'); no removal resizes the store.
DeletionIsGapGrowth ==
    [][op' \in {"remove", "remove_prefix", "remove_suffix"} =>
          /\ status' = "ok"
          /\ Len(buf') = Len(buf)
          /\ \E k \in ClampedCounts(op', size(Self), arg'.index, arg'.count) :
                /\ (ge' - gb') = (ge - gb) + k
                /\ size(Self)' = size(Self) - k]_vars

====
